---------------------------- MODULE Spec2Model ----------------------------
(***************************************************************************)
(* V-trace off-policy actor-critic targets                                 *)
(* (parl/algorithms/paddle/impala/vtrace.py, from_importance_weights).     *)
(*                                                                         *)
(* Numbers.  A float is modelled as an exact rational <<n, d>> in lowest   *)
(* terms with d > 0, so the model states the arithmetic the code performs  *)
(* without float32 rounding.  exp is tabulated on the integer log-ratios   *)
(* the model draws (e^-1 ~ 3/8, e^0 = 1, e^1 ~ 8/3).                       *)
(*                                                                         *)
(* Tensors.  A paddle tensor is [shape |-> <<d1,..,dk>>, data |-> the      *)
(* elements in row-major order].  Elementwise operators broadcast the way  *)
(* paddle does (shapes aligned from the right, a dimension of 1 stretched);*)
(* concat and stack do not broadcast.  Time indices are 0-based as in the  *)
(* Python source.                                                          *)
(***************************************************************************)
EXTENDS Integers, Sequences, FiniteSets, TLC

(* ------------------------------ bounds -------------------------------- *)
\* Longest trajectory (T) and widest batch (B) of the calls explored.
MaxT == 2
MaxB == 2
\* A call's arguments differ from the reference call in at most this many
\* places (an element, a threshold, or the shape of one argument).
MaxEdits == 1

(* ----------------------------- rationals ------------------------------ *)
Abs(n) == IF n < 0 THEN -n ELSE n

Max(a, b) == IF a >= b THEN a ELSE b

RECURSIVE GCD(_, _)
GCD(a, b) == IF b = 0 THEN a ELSE GCD(b, a % b)

Cancel(n, d, g) == <<n \div g, d \div g>>
Norm(n, d) == Cancel(n, d, GCD(Abs(n), d))

Zero == <<0, 1>>
One == <<1, 1>>
Half == <<1, 2>>

RAdd(x, y) == Norm(x[1] * y[2] + y[1] * x[2], x[2] * y[2])
RSub(x, y) == Norm(x[1] * y[2] - y[1] * x[2], x[2] * y[2])
RMul(x, y) == Norm(x[1] * y[1], x[2] * y[2])
RLe(x, y) == x[1] * y[2] <= y[1] * x[2]
RLt(x, y) == x[1] * y[2] < y[1] * x[2]
RMin(x, y) == IF RLe(x, y) THEN x ELSE y
RAbs(x) == <<Abs(x[1]), x[2]>>

\* paddle.exp on the log-ratios -1, 0, 1 (every log-probability drawn is an
\* integer, so every log-ratio is): monotone, positive, exp(0) = 1.
RExp(x) ==
  CASE x = <<-1, 1>> -> <<3, 8>>
    [] x = <<0, 1>> -> One
    [] x = <<1, 1>> -> <<8, 3>>

(* ------------------------------ tensors ------------------------------- *)
RECURSIVE Numel(_)
Numel(s) == IF s = <<>> THEN 1 ELSE s[1] * Numel(Tail(s))

Tensor(s, d) == [shape |-> s, data |-> d]

Rank(x) == Len(x.shape)

\* Shape s padded with leading 1s to rank k.
PadShape(s, k) ==
  [j \in 1..k |-> IF j <= k - Len(s) THEN 1 ELSE s[j - (k - Len(s))]]

BroadcastOK(s1, s2) ==
  LET k == Max(Len(s1), Len(s2))
      p1 == PadShape(s1, k)
      p2 == PadShape(s2, k)
  IN \A j \in 1..k : p1[j] = p2[j] \/ p1[j] = 1 \/ p2[j] = 1

BroadcastShape(s1, s2) ==
  LET k == Max(Len(s1), Len(s2))
      p1 == PadShape(s1, k)
      p2 == PadShape(s2, k)
  IN [j \in 1..k |-> IF p1[j] = 1 THEN p2[j] ELSE p1[j]]

\* Offset, in an operand of padded shape p, of the element that the result's
\* element i (0-based, result shape S) reads; dimensions j..1 still to do.
RECURSIVE Offset(_, _, _, _, _)
Offset(i, S, p, j, stride) ==
  IF j = 0 THEN 0
  ELSE (IF p[j] = 1 THEN 0 ELSE (i % S[j]) * stride)
       + Offset(i \div S[j], S, p, j - 1, stride * p[j])

\* One scalar operation of an elementwise operator.
Scalar(op, x, y) ==
  CASE op = "+" -> RAdd(x, y)
    [] op = "-" -> RSub(x, y)
    [] op = "*" -> RMul(x, y)

\* The elements of an elementwise result of shape S, the operands' shapes
\* padded to pa and pb.
Broadcast(op, a, b, S, pa, pb) ==
  Tensor(S, [i \in 1..Numel(S) |->
               Scalar(op, a.data[1 + Offset(i - 1, S, pa, Len(S), 1)],
                          b.data[1 + Offset(i - 1, S, pb, Len(S), 1)])])

Elementwise(op, a, b) ==
  IF a.shape = b.shape
  THEN Tensor(a.shape, [i \in 1..Len(a.data) |->
                          Scalar(op, a.data[i], b.data[i])])
  ELSE LET S == BroadcastShape(a.shape, b.shape)
       IN Broadcast(op, a, b, S, PadShape(a.shape, Len(S)),
                    PadShape(b.shape, Len(S)))

TAdd(a, b) == Elementwise("+", a, b)
TSub(a, b) == Elementwise("-", a, b)
TMul(a, b) == Elementwise("*", a, b)

TExp(a) == Tensor(a.shape, [i \in 1..Len(a.data) |-> RExp(a.data[i])])

\* paddle.clip(a, max=c) with a Python scalar c.
TClipMax(a, c) == Tensor(a.shape, [i \in 1..Len(a.data) |-> RMin(a.data[i], c)])

\* a[t], t 0-based.
TAt(a, t) ==
  LET st == Numel(Tail(a.shape))
  IN Tensor(Tail(a.shape), SubSeq(a.data, t * st + 1, (t + 1) * st))

\* a[1:]
TFrom1(a) ==
  LET st == Numel(Tail(a.shape))
  IN Tensor(<<Max(a.shape[1] - 1, 0)>> \o Tail(a.shape),
            SubSeq(a.data, st + 1, Len(a.data)))

\* paddle.unsqueeze(a, 0)
TUnsqueeze0(a) == Tensor(<<1>> \o a.shape, a.data)

ConcatOK(a, b) ==
  /\ Rank(a) >= 1
  /\ Rank(a) = Rank(b)
  /\ Tail(a.shape) = Tail(b.shape)

\* paddle.concat([a, b], axis=0)
TConcat0(a, b) ==
  Tensor(<<a.shape[1] + b.shape[1]>> \o Tail(a.shape), a.data \o b.data)

TZerosLike(a) == Tensor(a.shape, [i \in 1..Len(a.data) |-> Zero])

RECURSIVE Flatten(_)
Flatten(list) ==
  IF list = <<>> THEN <<>> ELSE Head(list).data \o Flatten(Tail(list))

StackOK(list) ==
  /\ list # <<>>
  /\ \A i \in 1..Len(list) : list[i].shape = list[1].shape

\* paddle.stack(list)
TStack(list) == Tensor(<<Len(list)>> \o list[1].shape, Flatten(list))

\* list.reverse()
Reverse(list) == [i \in 1..Len(list) |-> list[Len(list) + 1 - i]]


(* ------------------- from_importance_weights, by stage ----------------- *)
\* Python's None (an absent clip threshold).
None == <<>>

\* Mutant: the assert on bootstrap_value left out.
RanksOKNoBootstrap(a) ==
  LET rank == Rank(a.behaviour_actions_log_probs)
  IN /\ Rank(a.target_actions_log_probs) = rank
     /\ Rank(a.values) = rank
     /\ Rank(a.discounts) = rank
     /\ Rank(a.rewards) = rank

\* The asserts at call entry: only ranks are compared.
RanksOK(a) ==
  LET rank == Rank(a.behaviour_actions_log_probs)
  IN /\ Rank(a.target_actions_log_probs) = rank
     /\ Rank(a.values) = rank
     /\ Rank(a.bootstrap_value) = rank - 1
     /\ Rank(a.discounts) = rank
     /\ Rank(a.rewards) = rank

LogRhosOK(a) ==
  BroadcastOK(a.target_actions_log_probs.shape,
              a.behaviour_actions_log_probs.shape)

LogRhos(a) ==
  TSub(a.target_actions_log_probs, a.behaviour_actions_log_probs)

Rhos(a) == TExp(LogRhos(a))

\* Mutant: a threshold that is not positive is taken as absent.
ClippedRhosPositiveOnly(a, rh) ==
  IF a.clip_rho_threshold # None /\ RLt(Zero, a.clip_rho_threshold)
  THEN TClipMax(rh, a.clip_rho_threshold)
  ELSE rh

\* Mutant: clipped from below (clip(rhos, min=...)) instead of from above.
ClippedRhosFromBelow(a, rh) ==
  IF a.clip_rho_threshold # None
  THEN Tensor(rh.shape, [i \in 1..Len(rh.data) |->
                           IF RLe(rh.data[i], a.clip_rho_threshold)
                           THEN a.clip_rho_threshold ELSE rh.data[i]])
  ELSE rh

ClippedRhos(a, rh) ==
  IF a.clip_rho_threshold # None
  THEN TClipMax(rh, a.clip_rho_threshold)
  ELSE rh

\* Mutant: the trace-cutting coefficients left unclipped.
CsUnclipped(rh) == rh

Cs(rh) == TClipMax(rh, One)

\* Mutant: zeros appended in place of the bootstrap value.
ValuesTPlus1ZeroBootstrap(a) ==
  TConcat0(TFrom1(a.values), TUnsqueeze0(TZerosLike(a.bootstrap_value)))

\* Mutant: the first lane's bootstrap value appended for every lane.
ValuesTPlus1FirstLane(a) ==
  TConcat0(TFrom1(a.values),
           TUnsqueeze0(Tensor(a.bootstrap_value.shape,
                              [i \in 1..Len(a.bootstrap_value.data) |->
                                 a.bootstrap_value.data[1]])))

\* [v1, ..., v_t+1]: values shifted one step, the bootstrap value appended.
ValuesTPlus1(a) ==
  TConcat0(TFrom1(a.values), TUnsqueeze0(a.bootstrap_value))

\* What paddle checks while evaluating lines 110-114.
DeltasOK(a, crh) ==
  /\ ConcatOK(TFrom1(a.values), TUnsqueeze0(a.bootstrap_value))
  /\ BroadcastOK(a.discounts.shape, ValuesTPlus1(a).shape)
  /\ LET s1 == BroadcastShape(a.discounts.shape, ValuesTPlus1(a).shape)
     IN /\ BroadcastOK(a.rewards.shape, s1)
        /\ LET s2 == BroadcastShape(a.rewards.shape, s1)
           IN /\ BroadcastOK(s2, a.values.shape)
              /\ BroadcastOK(crh.shape, BroadcastShape(s2, a.values.shape))

\* Mutant: the discount left out of the temporal-difference residual.
DeltasUndiscounted(a, crh) ==
  TMul(crh, TSub(TAdd(a.rewards, ValuesTPlus1(a)), a.values))

Deltas(a, crh) ==
  TMul(crh,
       TSub(TAdd(a.rewards, TMul(a.discounts, ValuesTPlus1(a))), a.values))

\* What paddle checks while evaluating line 119 at index t.
ScanOK(a, dl, c, t, ac) ==
  /\ t < dl.shape[1]
  /\ t < c.shape[1]
  /\ BroadcastOK(TAt(a.discounts, t).shape, TAt(c, t).shape)
  /\ LET s1 == BroadcastShape(TAt(a.discounts, t).shape, TAt(c, t).shape)
     IN /\ BroadcastOK(s1, ac.shape)
        /\ BroadcastOK(TAt(dl, t).shape, BroadcastShape(s1, ac.shape))

\* Mutant: the discount left out of the recurrence.
ScanBodyUndiscounted(a, dl, c, t, ac) ==
  TAdd(TAt(dl, t), TMul(TAt(c, t), ac))

\* The loop body: acc = deltas[t] + discounts[t] * cs[t] * acc
ScanBody(a, dl, c, t, ac) ==
  TAdd(TAt(dl, t), TMul(TMul(TAt(a.discounts, t), TAt(c, t)), ac))

VsMinusVXs(res) == TStack(Reverse(res))

Vs(a, res) == TAdd(VsMinusVXs(res), a.values)

\* Mutant: the raw values shifted, not the corrected targets.
VsTPlus1FromValues(a, v) == ValuesTPlus1(a)

VsTPlus1(a, v) == TConcat0(TFrom1(v), TUnsqueeze0(a.bootstrap_value))

\* Mutant: an absent threshold taken as the default 1.0.
ClippedPgRhosDefaultOne(a, rh) ==
  TClipMax(rh, IF a.clip_pg_rho_threshold # None
               THEN a.clip_pg_rho_threshold ELSE One)

ClippedPgRhos(a, rh) ==
  IF a.clip_pg_rho_threshold # None
  THEN TClipMax(rh, a.clip_pg_rho_threshold)
  ELSE rh

\* What paddle checks while evaluating lines 122-137.
FinishOK(a, rh, res) ==
  /\ StackOK(Reverse(res))
  /\ BroadcastOK(VsMinusVXs(res).shape, a.values.shape)
  /\ ConcatOK(TFrom1(Vs(a, res)), TUnsqueeze0(a.bootstrap_value))
  /\ BroadcastOK(a.discounts.shape, VsTPlus1(a, Vs(a, res)).shape)
  /\ LET s1 == BroadcastShape(a.discounts.shape, VsTPlus1(a, Vs(a, res)).shape)
     IN /\ BroadcastOK(a.rewards.shape, s1)
        /\ LET s2 == BroadcastShape(a.rewards.shape, s1)
           IN /\ BroadcastOK(s2, a.values.shape)
              /\ BroadcastOK(rh.shape, BroadcastShape(s2, a.values.shape))

PgAdvantages(a, rh, v) ==
  TMul(ClippedPgRhos(a, rh),
       TSub(TAdd(a.rewards, TMul(a.discounts, VsTPlus1(a, v))), a.values))

\* The whole backward loop, from index t down to 0.
RECURSIVE ScanLoop(_, _, _, _, _, _)
ScanLoop(a, dl, c, t, ac, res) ==
  IF t < 0 THEN res
  ELSE LET nacc == ScanBody(a, dl, c, t, ac)
       IN ScanLoop(a, dl, c, t - 1, nacc, Append(res, nacc))

\* The call as one function of its arguments (for arguments paddle accepts):
\* the VTraceReturns tuple, and vs_minus_v_xs beside it.
from_importance_weights(a) ==
  LET Returns(rh, v, vmv) ==
        [vs |-> v,
         pg_advantages |-> PgAdvantages(a, rh, v),
         vs_minus_v_xs |-> vmv]
      AfterLoop(rh, res) == Returns(rh, Vs(a, res), VsMinusVXs(res))
      AfterWeights(rh) ==
        AfterLoop(rh, ScanLoop(a, Deltas(a, ClippedRhos(a, rh)), Cs(rh),
                               a.discounts.shape[1] - 1,
                               TZerosLike(a.bootstrap_value), <<>>))
  IN AfterWeights(Rhos(a))

(* --------------------------- the calls explored ------------------------ *)
ArrayArgs ==
  {"behaviour_actions_log_probs", "target_actions_log_probs", "discounts",
   "rewards", "values"}

TensorArgs == ArrayArgs \cup {"bootstrap_value"}

ThresholdArgs == {"clip_rho_threshold", "clip_pg_rho_threshold"}

\* The elements an argument is drawn from.
LogProbVals == {<<-1, 1>>, Zero}
DiscountVals == {Zero, Half}
RewardVals == {Zero, One}
ValueVals == {Zero, One}
ThresholdVals == {None, <<-1, 1>>, Zero, Half, One, <<3, 1>>}

ElementVals(f) ==
  CASE f \in {"behaviour_actions_log_probs", "target_actions_log_probs"} ->
         LogProbVals
    [] f = "discounts" -> DiscountVals
    [] f = "rewards" -> RewardVals
    [] f \in {"values", "bootstrap_value"} -> ValueVals

Filled(s, v) == Tensor(s, [i \in 1..Numel(s) |-> v])

\* The reference calls: an on-policy trajectory of T steps and B lanes, with
\* the default thresholds of the signature (1.0) or with both absent.
ReferenceCall(T, B, threshold) ==
  [behaviour_actions_log_probs |-> Filled(<<T, B>>, Zero),
   target_actions_log_probs |-> Filled(<<T, B>>, Zero),
   discounts |-> Filled(<<T, B>>, Half),
   rewards |-> Filled(<<T, B>>, One),
   values |-> Filled(<<T, B>>, Zero),
   bootstrap_value |-> Filled(<<B>>, One),
   clip_rho_threshold |-> threshold,
   clip_pg_rho_threshold |-> threshold]

ReferenceCalls ==
  {ReferenceCall(T, B, th) : T \in 1..MaxT, B \in 1..MaxB, th \in {One, None}}

\* x[0:1], x[:, 0:1], x with its last row repeated.
FirstRow(x) ==
  LET st == Numel(Tail(x.shape))
  IN Tensor(<<1>> \o Tail(x.shape), SubSeq(x.data, 1, st))

FirstColumn(x) ==
  LET T == x.shape[1]
      B == x.shape[2]
  IN Tensor(<<T, 1>>, [i \in 1..T |-> x.data[(i - 1) * B + 1]])

ExtraRow(x) ==
  LET st == Numel(Tail(x.shape))
  IN Tensor(<<x.shape[1] + 1>> \o Tail(x.shape),
            x.data \o SubSeq(x.data, Len(x.data) - st + 1, Len(x.data)))

\* The same elements handed over with another shape or rank.
Reshape(how, x) ==
  CASE how = "FirstRow" -> FirstRow(x)
    [] how = "FirstColumn" -> FirstColumn(x)
    [] how = "ExtraRow" -> ExtraRow(x)
    [] how = "Index0" -> TAt(x, 0)
    [] how = "Unsqueeze" -> TUnsqueeze0(x)

ReshapeKinds(f) ==
  IF f = "bootstrap_value"
  THEN {"FirstRow", "ExtraRow", "Unsqueeze"}
  ELSE {"FirstRow", "FirstColumn", "ExtraRow", "Index0"}

\* One edit of a call: an element, a threshold, or the shape of an argument.
Apply(e, a) ==
  CASE e.how = "element" -> [a EXCEPT ![e.arg].data[e.at] = e.to]
    [] e.how = "threshold" -> [a EXCEPT ![e.arg] = e.to]
    [] OTHER -> [a EXCEPT ![e.arg] = Reshape(e.how, a[e.arg])]

ElementEdits(a) ==
  UNION {UNION {{[how |-> "element", arg |-> f, at |-> i, to |-> v] :
                   v \in ElementVals(f) \ {a[f].data[i]}} :
                  i \in 1..Len(a[f].data)} : f \in TensorArgs}

ThresholdEdits(a) ==
  UNION {{[how |-> "threshold", arg |-> f, at |-> 0, to |-> v] :
            v \in ThresholdVals \ {a[f]}} : f \in ThresholdArgs}

ShapeEdits ==
  UNION {{[how |-> h, arg |-> f, at |-> 0, to |-> None] :
            h \in ReshapeKinds(f)} : f \in TensorArgs}

RECURSIVE SetToSeq(_)
SetToSeq(S) ==
  IF S = {} THEN <<>>
  ELSE LET x == CHOOSE y \in S : TRUE IN <<x>> \o SetToSeq(S \ {x})

\* The edits of a reference call, those of the shapes last.
EditSeq(a) ==
  SetToSeq(ElementEdits(a) \cup ThresholdEdits(a)) \o SetToSeq(ShapeEdits)

\* Call a and what at most k of the edits es[from..] make of it.
RECURSIVE Edited(_, _, _, _)
Edited(a, es, from, k) ==
  IF k = 0 THEN {a}
  ELSE {a} \cup UNION {Edited(Apply(es[i], a), es, i + 1, k - 1) :
                         i \in from..Len(es)}

\* The calls explored from reference call r.
Calls(r) == Edited(r, EditSeq(r), 1, MaxEdits)

(* ------------------------------ the call ------------------------------- *)
VARIABLES
  args,            \* the arguments of the call
  pc,              \* "entry", "weights", "deltas", "scan", "done", "raised"
  rhos, clipped_rhos, cs, deltas,
  t, acc, result,  \* the backward loop
  vs_minus_v_xs, vs, pg_advantages,
  raised           \* the exception the call ended with, "" if none

vars ==
  <<args, pc, rhos, clipped_rhos, cs, deltas, t, acc, result,
    vs_minus_v_xs, vs, pg_advantages, raised>>

\* A local not assigned yet.
Unset == Tensor(<<0>>, <<>>)

Init ==
  /\ \E r \in ReferenceCalls : args \in Calls(r)
  /\ pc = "entry"
  /\ rhos = Unset /\ clipped_rhos = Unset /\ cs = Unset /\ deltas = Unset
  /\ t = 0 /\ acc = Unset /\ result = <<>>
  /\ vs_minus_v_xs = Unset /\ vs = Unset /\ pg_advantages = Unset
  /\ raised = ""

Raise(e) ==
  /\ pc' = "raised"
  /\ raised' = e

\* Lines 90-95.
Asserts ==
  /\ pc = "entry"
  /\ IF RanksOK(args)
     THEN pc' = "weights" /\ raised' = raised
     ELSE Raise("AssertionError")
  /\ UNCHANGED <<args, rhos, clipped_rhos, cs, deltas, t, acc, result,
                 vs_minus_v_xs, vs, pg_advantages>>

\* Lines 99-107.
Weights ==
  /\ pc = "weights"
  /\ IF LogRhosOK(args)
     THEN /\ rhos' = Rhos(args)
          /\ clipped_rhos' = ClippedRhos(args, rhos')
          /\ cs' = Cs(rhos')
          /\ pc' = "deltas" /\ raised' = raised
     ELSE /\ Raise("ValueError")
          /\ UNCHANGED <<rhos, clipped_rhos, cs>>
  /\ UNCHANGED <<args, deltas, t, acc, result, vs_minus_v_xs, vs,
                 pg_advantages>>

\* Lines 110-118: deltas, and the loop's initial state.
ComputeDeltas ==
  /\ pc = "deltas"
  /\ IF DeltasOK(args, clipped_rhos)
     THEN /\ deltas' = Deltas(args, clipped_rhos)
          /\ acc' = TZerosLike(args.bootstrap_value)
          /\ result' = <<>>
          /\ t' = args.discounts.shape[1] - 1
          /\ pc' = "scan" /\ raised' = raised
     ELSE /\ Raise("ValueError")
          /\ UNCHANGED <<deltas, acc, result, t>>
  /\ UNCHANGED <<args, rhos, clipped_rhos, cs, vs_minus_v_xs, vs,
                 pg_advantages>>

\* Lines 118-120: one iteration of the backward loop.
ScanStep ==
  /\ pc = "scan"
  /\ t >= 0
  /\ IF ScanOK(args, deltas, cs, t, acc)
     THEN /\ acc' = ScanBody(args, deltas, cs, t, acc)
          /\ result' = Append(result, acc')
          /\ t' = t - 1
          /\ UNCHANGED <<pc, raised>>
     ELSE /\ Raise("IndexError")
          /\ UNCHANGED <<acc, result, t>>
  /\ UNCHANGED <<args, rhos, clipped_rhos, cs, deltas, vs_minus_v_xs, vs,
                 pg_advantages>>

\* Lines 121-139, after the loop's last iteration.
Finish ==
  /\ pc = "scan"
  /\ t < 0
  /\ IF FinishOK(args, rhos, result)
     THEN /\ result' = Reverse(result)
          /\ vs_minus_v_xs' = VsMinusVXs(result)
          /\ vs' = Vs(args, result)
          /\ pg_advantages' = PgAdvantages(args, rhos, vs')
          /\ pc' = "done" /\ raised' = raised
     ELSE /\ Raise("ValueError")
          /\ UNCHANGED <<result, vs_minus_v_xs, vs, pg_advantages>>
  /\ UNCHANGED <<args, rhos, clipped_rhos, cs, deltas, t, acc>>

Next == Asserts \/ Weights \/ ComputeDeltas \/ ScanStep \/ Finish

Spec == Init /\ [][Next]_vars

(* ---------------------- the contract, as specified --------------------- *)
\* The arguments have the documented shapes: five [T, B] arrays and a [B]
\* bootstrap value, T >= 1, B >= 1.
WellShaped(a) ==
  /\ Rank(a.values) = 2
  /\ a.values.shape[1] >= 1 /\ a.values.shape[2] >= 1
  /\ \A f \in ArrayArgs : a[f].shape = a.values.shape
  /\ a.bootstrap_value.shape = <<a.values.shape[2]>>

Positive(c) == c # None /\ RLt(Zero, c)

NonPositive(c) == c # None /\ RLe(c, Zero)

\* A valid input: documented shapes, thresholds absent or positive.
ValidCall(a) ==
  /\ WellShaped(a)
  /\ \A f \in ThresholdArgs : a[f] = None \/ Positive(a[f])

\* Five arrays of one rank, the bootstrap value of one rank less.
RanksMatch(a) ==
  /\ \A f \in ArrayArgs : Len(a[f].shape) = Len(a.values.shape)
  /\ Len(a.bootstrap_value.shape) = Len(a.values.shape) - 1

TimeSteps(a) == 0..(a.values.shape[1] - 1)
Lanes(a) == 0..(a.values.shape[2] - 1)

\* x[t][b] of a [T, B] array, x[b] of a [B] array (t, b 0-based).
Elem(x, tt, b) == x.data[tt * x.shape[2] + b + 1]
Elem1(x, b) == x.data[b + 1]

SpecRho(a, tt, b) ==
  RExp(RSub(Elem(a.target_actions_log_probs, tt, b),
            Elem(a.behaviour_actions_log_probs, tt, b)))

SpecClip(x, c) == IF c = None THEN x ELSE RMin(x, c)

\* y shifted one step forward in time, the bootstrap value at the end.
SpecNext(a, y, tt, b) ==
  IF tt < a.values.shape[1] - 1 THEN Elem(y, tt + 1, b)
  ELSE Elem1(a.bootstrap_value, b)

\* rewards[t] + discounts[t] * next[t] - values[t]
SpecResidual(a, y, tt, b) ==
  RSub(RAdd(Elem(a.rewards, tt, b),
            RMul(Elem(a.discounts, tt, b), SpecNext(a, y, tt, b))),
       Elem(a.values, tt, b))

SpecDelta(a, tt, b) ==
  RMul(SpecClip(SpecRho(a, tt, b), a.clip_rho_threshold),
       SpecResidual(a, a.values, tt, b))

\* acc_T = 0, acc_t = deltas[t] + discounts[t] * cs[t] * acc_{t+1}
RECURSIVE SpecAcc(_, _, _)
SpecAcc(a, tt, b) ==
  IF tt >= a.values.shape[1] THEN Zero
  ELSE RAdd(SpecDelta(a, tt, b),
            RMul(RMul(Elem(a.discounts, tt, b), RMin(SpecRho(a, tt, b), One)),
                 SpecAcc(a, tt + 1, b)))

Returned == pc = "done"

(* C1: for every valid input, vs[t] = values[t] + acc_t for every t, where
   acc_T = 0 and acc_t = deltas[t] + discounts[t] * cs[t] * acc_{t+1}, deltas
   built from rhos clipped at clip_rho_threshold (unclipped when it is absent)
   and the values shifted one step with the bootstrap value appended, and
   cs = min(rhos, 1.0) whatever clip_rho_threshold is; the acc values are
   collected by increasing t. *)
C1_VsIsValuesPlusAcc ==
  (Returned /\ ValidCall(args)) =>
    /\ vs.shape = args.values.shape
    /\ vs_minus_v_xs.shape = args.values.shape
    /\ \A tt \in TimeSteps(args), b \in Lanes(args) :
         /\ Elem(vs_minus_v_xs, tt, b) = SpecAcc(args, tt, b)
         /\ Elem(vs, tt, b) = RAdd(Elem(args.values, tt, b), SpecAcc(args, tt, b))
         /\ Elem(cs, tt, b) = RMin(SpecRho(args, tt, b), One)

\* A returned call of two steps at least in which a ratio above 1 meets a
\* threshold other than 1.0 and a nonzero acc from the step after.
C1_Witness ==
  /\ Returned /\ ValidCall(args)
  /\ args.clip_rho_threshold # One
  /\ \E tt \in TimeSteps(args), b \in Lanes(args) :
       /\ tt + 1 \in TimeSteps(args)
       /\ RLt(One, SpecRho(args, tt, b))
       /\ Elem(args.discounts, tt, b) # Zero
       /\ Elem(vs_minus_v_xs, tt + 1, b) # Zero

(* C2: for every valid input, pg_advantages[t] = clipped_pg_rhos[t] *
   (rewards[t] + discounts[t] * vs_t_plus_1[t] - values[t]), where
   vs_t_plus_1 is vs (not values) shifted one step with the bootstrap value
   appended and clipped_pg_rhos is rhos clipped at clip_pg_rho_threshold
   (unclipped when absent), independently of clip_rho_threshold. *)
C2_PgAdvantages ==
  (Returned /\ ValidCall(args)) =>
    /\ pg_advantages.shape = args.values.shape
    /\ \A tt \in TimeSteps(args), b \in Lanes(args) :
         Elem(pg_advantages, tt, b) =
           RMul(SpecClip(SpecRho(args, tt, b), args.clip_pg_rho_threshold),
                SpecResidual(args, vs, tt, b))

\* A returned call whose two thresholds differ, with a ratio the pg
\* threshold clips and a step whose successor's vs differs from its value.
C2_Witness ==
  /\ Returned /\ ValidCall(args)
  /\ args.clip_pg_rho_threshold # args.clip_rho_threshold
  /\ \E tt \in TimeSteps(args), b \in Lanes(args) :
       /\ tt + 1 \in TimeSteps(args)
       /\ args.clip_pg_rho_threshold # None
       /\ RLt(args.clip_pg_rho_threshold, SpecRho(args, tt, b))
       /\ Elem(args.discounts, tt, b) # Zero
       /\ Elem(vs, tt + 1, b) # Elem(args.values, tt + 1, b)

\* Every [T, B] argument has the same shape and bootstrap_value the shape
\* of one of their rows.
ShapesAgree(a) ==
  /\ \A f \in ArrayArgs : a[f].shape = a.values.shape
  /\ Len(a.values.shape) >= 1
  /\ a.bootstrap_value.shape = Tail(a.values.shape)

NothingComputed ==
  /\ rhos = Unset /\ clipped_rhos = Unset /\ cs = Unset /\ deltas = Unset
  /\ acc = Unset /\ result = <<>>
  /\ vs_minus_v_xs = Unset /\ vs = Unset /\ pg_advantages = Unset

RejectedAtEntry == pc = "raised" /\ NothingComputed

(* C3 as claimed: every call whose [T, B] arguments do not all have the same
   shape, or whose bootstrap_value has not exactly the shape [B], is rejected
   at call entry with an error, before anything is computed. *)
C3_ShapeMismatchRejectedAtEntry ==
  (~ShapesAgree(args) /\ pc # "entry") => RejectedAtEntry

(* C3 as amended: every call whose five [T, B] arguments do not all have the
   same rank, or whose bootstrap_value has not one rank less, is rejected at
   call entry with an AssertionError, before anything is computed. *)
C3_RankMismatchRejectedAtEntry ==
  (~RanksMatch(args) /\ pc # "entry") =>
    (RejectedAtEntry /\ raised = "AssertionError")

\* A call rejected at entry whose ranks do not match.
C3_Witness == pc = "raised" /\ ~RanksMatch(args)

AThresholdNonPositive(a) ==
  NonPositive(a.clip_rho_threshold) \/ NonPositive(a.clip_pg_rho_threshold)

(* C4 as claimed: every call in which a clip threshold is present but zero
   or negative is rejected at call entry with an error; no vs or
   pg_advantages is returned for it. *)
C4_NonPositiveThresholdRejected ==
  (AThresholdNonPositive(args) /\ pc # "entry") => RejectedAtEntry

(* C4 as amended: the thresholds are not validated.  A call with arguments
   of the documented shapes in which a clip threshold is zero or negative is
   not rejected: it returns vs and pg_advantages computed as for any other
   threshold, with clipped_rhos = min(rhos, clip_rho_threshold) and
   clipped_pg_rhos = min(rhos, clip_pg_rho_threshold). *)
C4_NonPositiveThresholdAccepted ==
  (AThresholdNonPositive(args) /\ WellShaped(args)) =>
    /\ pc # "raised"
    /\ Returned =>
         \A tt \in TimeSteps(args), b \in Lanes(args) :
           /\ Elem(vs, tt, b) =
                RAdd(Elem(args.values, tt, b), SpecAcc(args, tt, b))
           /\ Elem(pg_advantages, tt, b) =
                RMul(SpecClip(SpecRho(args, tt, b), args.clip_pg_rho_threshold),
                     SpecResidual(args, vs, tt, b))

\* A call that returned although clip_rho_threshold is zero or negative.
C4_Witness ==
  Returned /\ WellShaped(args) /\ NonPositive(args.clip_rho_threshold)

OnPolicy(a) ==
  a.target_actions_log_probs.data = a.behaviour_actions_log_probs.data

NoClipBelowOne(a) ==
  \A f \in ThresholdArgs : a[f] = None \/ RLe(One, a[f])

(* C5: when target_log_probs equals behaviour_log_probs everywhere
   (rhos = cs = 1) and no clip threshold is below 1, vs[t] = rewards[t] +
   discounts[t] * vs[t+1] for every t, vs[T] being bootstrap_value, and
   pg_advantages[t] = rewards[t] + discounts[t] * vs_t_plus_1[t] - values[t];
   for T = 1, vs[0] = r + discount * bootstrap_value and pg_advantages[0] =
   r + discount * bootstrap_value - v. *)
C5_OnPolicyDiscountedReturn ==
  (Returned /\ ValidCall(args) /\ OnPolicy(args) /\ NoClipBelowOne(args)) =>
    \A tt \in TimeSteps(args), b \in Lanes(args) :
      /\ Elem(rhos, tt, b) = One /\ Elem(cs, tt, b) = One
      /\ Elem(vs, tt, b) =
           RAdd(Elem(args.rewards, tt, b),
                RMul(Elem(args.discounts, tt, b), SpecNext(args, vs, tt, b)))
      /\ Elem(pg_advantages, tt, b) = SpecResidual(args, vs, tt, b)

\* A returned on-policy call of two steps at least, with a nonzero value
\* estimate in it.
C5_Witness ==
  /\ Returned /\ ValidCall(args) /\ OnPolicy(args) /\ NoClipBelowOne(args)
  /\ \E tt \in TimeSteps(args), b \in Lanes(args) :
       /\ tt + 1 \in TimeSteps(args)
       /\ Elem(args.values, tt, b) # Zero

(* ------------------------- calls compared ------------------------------ *)
\* Another element for argument f than v.
Other(f, v) == CHOOSE w \in ElementVals(f) : w # v

\* Call a with, in each argument of F, every element the test Hit(f, i)
\* selects replaced by another one.
Changed(a, F, Hit(_, _)) ==
  [f \in DOMAIN a |->
     IF f \in F
     THEN Tensor(a[f].shape,
                 [i \in 1..Len(a[f].data) |->
                    IF Hit(f, i) THEN Other(f, a[f].data[i]) ELSE a[f].data[i]])
     ELSE a[f]]

\* The arguments changed together, and each alone.
ArgGroups == {TensorArgs} \cup {{f} : f \in TensorArgs}

\* Call a changed only at time steps after tt0, the bootstrap value included.
ChangedAfter(a, F, tt0) ==
  LET B == a.values.shape[2]
      Hit(f, i) == f = "bootstrap_value" \/ (i - 1) \div B > tt0
  IN Changed(a, F, Hit)

\* Call a changed only in lane b0.
ChangedInLane(a, F, b0) ==
  LET B == a.values.shape[2]
      Hit(f, i) == (i - 1) % B = b0
  IN Changed(a, F, Hit)

\* The thresholds compared in C6.
ClipLevels == {<<1, 4>>, Half, One}

\* deltas of call a had clip_rho_threshold been c.
DeltasWith(a, c) ==
  LET a2 == [a EXCEPT !.clip_rho_threshold = c]
  IN Deltas(a2, ClippedRhos(a2, Rhos(a2)))

(* C6 as claimed: for any inputs and any step t whose ratio rhos[t] exceeds
   the threshold, decreasing clip_rho_threshold to a smaller positive value
   strictly reduces |deltas[t]|, and lowering the threshold never increases
   |deltas[t]|. *)
C6_LowerThresholdStrictlyReduces ==
  (Returned /\ ValidCall(args)) =>
    \A D \in {[c \in ClipLevels |-> DeltasWith(args, c)]} :
       \A tt \in TimeSteps(args), b \in Lanes(args) :
         \A c \in ClipLevels, c2 \in ClipLevels :
           RLt(c2, c) =>
             /\ RLe(RAbs(Elem(D[c2], tt, b)), RAbs(Elem(D[c], tt, b)))
             /\ RLt(c, SpecRho(args, tt, b)) =>
                  RLt(RAbs(Elem(D[c2], tt, b)), RAbs(Elem(D[c], tt, b)))

(* C6 as amended: for any inputs and any step t whose ratio rhos[t] exceeds
   the threshold, decreasing clip_rho_threshold to a smaller positive value
   strictly reduces |deltas[t]| provided the residual rewards[t] +
   discounts[t] * values_t_plus_1[t] - values[t] is not zero (when it is
   zero, deltas[t] is 0 under every threshold); lowering the threshold never
   increases |deltas[t]|. *)
C6_LowerThresholdReduces ==
  (Returned /\ ValidCall(args)) =>
    \A D \in {[c \in ClipLevels |-> DeltasWith(args, c)]} :
       \A tt \in TimeSteps(args), b \in Lanes(args) :
         \A c \in ClipLevels, c2 \in ClipLevels :
           RLt(c2, c) =>
             /\ RLe(RAbs(Elem(D[c2], tt, b)), RAbs(Elem(D[c], tt, b)))
             /\ (RLt(c, SpecRho(args, tt, b))
                 /\ SpecResidual(args, args.values, tt, b) # Zero) =>
                  RLt(RAbs(Elem(D[c2], tt, b)), RAbs(Elem(D[c], tt, b)))
             /\ SpecResidual(args, args.values, tt, b) = Zero =>
                  Elem(D[c], tt, b) = Zero

\* A returned call with a step whose ratio exceeds 1.0 and whose residual
\* is not zero: lowering the threshold from 1.0 to 0.5 bites.
C6_Witness ==
  /\ Returned /\ ValidCall(args)
  /\ \E tt \in TimeSteps(args), b \in Lanes(args) :
       /\ RLt(One, SpecRho(args, tt, b))
       /\ SpecResidual(args, args.values, tt, b) # Zero

\* Outputs out and the call's own agree at [tt][b].
SameAt(out, tt, b) ==
  /\ Elem(out.vs, tt, b) = Elem(vs, tt, b)
  /\ Elem(out.pg_advantages, tt, b) = Elem(pg_advantages, tt, b)

(* C7: if discounts[t] = 0 then, for every t' <= t, vs[t'] and
   pg_advantages[t'] do not depend on the rewards, values, discounts or
   log-probabilities at any index greater than t, nor on bootstrap_value:
   two calls that agree on all inputs at indices 0..t and both have
   discounts[t] = 0 return identical vs[0..t] and pg_advantages[0..t].
   (Stated lane by lane: lane b of the outputs up to t, once
   discounts[t][b] = 0.) *)
C7_DiscountZeroIsolatesPast ==
  (Returned /\ ValidCall(args)) =>
    \A tt0 \in TimeSteps(args) :
      (\E b \in Lanes(args) : Elem(args.discounts, tt0, b) = Zero) =>
        \A F \in ArgGroups :
          \A out \in {from_importance_weights(ChangedAfter(args, F, tt0))} :
             \A b \in Lanes(args) :
               Elem(args.discounts, tt0, b) = Zero =>
                 /\ Elem(vs_minus_v_xs, tt0, b) = Elem(deltas, tt0, b)
                 /\ \A tt \in 0..tt0 : SameAt(out, tt, b)

\* A returned call with a zero discount at a step that has a successor.
C7_Witness ==
  /\ Returned /\ ValidCall(args)
  /\ \E tt \in TimeSteps(args), b \in Lanes(args) :
       /\ tt + 1 \in TimeSteps(args)
       /\ Elem(args.discounts, tt, b) = Zero

(* C8 as claimed: discounts[t] = 0 for some t >= 1 makes the term that acc_t
   contributes to acc_{t-1} vanish, so that acc_{t-1} = deltas[t-1]. *)
C8_DiscountZeroCutsEarlierStep ==
  (Returned /\ ValidCall(args)) =>
    \A tt \in TimeSteps(args), b \in Lanes(args) :
      (tt >= 1 /\ Elem(args.discounts, tt, b) = Zero) =>
        Elem(vs_minus_v_xs, tt - 1, b) = Elem(deltas, tt - 1, b)

(* C8 as amended: discounts[t] = 0 makes the term that acc_{t+1} contributes
   to acc_t vanish: acc_t = deltas[t], and acc_t, and every acc before it,
   is unaffected by acc_{t+1}, for any downstream values. *)
C8_DiscountZeroCutsOwnStep ==
  (Returned /\ ValidCall(args)) =>
    \A tt0 \in TimeSteps(args) :
      (\E b \in Lanes(args) : Elem(args.discounts, tt0, b) = Zero) =>
        \A out \in {from_importance_weights(
                       ChangedAfter(args, TensorArgs, tt0))} :
           \A b \in Lanes(args) :
             Elem(args.discounts, tt0, b) = Zero =>
               /\ Elem(vs_minus_v_xs, tt0, b) = SpecDelta(args, tt0, b)
               /\ \A tt \in 0..tt0 :
                    Elem(out.vs_minus_v_xs, tt, b) = Elem(vs_minus_v_xs, tt, b)

\* A returned call with a zero discount at a step whose successor's acc is
\* not zero.
C8_Witness ==
  /\ Returned /\ ValidCall(args)
  /\ \E tt \in TimeSteps(args), b \in Lanes(args) :
       /\ tt + 1 \in TimeSteps(args)
       /\ Elem(args.discounts, tt, b) = Zero
       /\ Elem(vs_minus_v_xs, tt + 1, b) # Zero

BothAbsent(a) == a.clip_rho_threshold = None /\ a.clip_pg_rho_threshold = None

\* Thresholds at least as large as every importance ratio of call a.
LargeThresholds(a) ==
  {c \in {One, <<8, 3>>, <<100, 1>>} :
     \A tt \in TimeSteps(a), b \in Lanes(a) : RLe(SpecRho(a, tt, b), c)}

(* C9: for every valid input, the call with both clip thresholds absent
   returns the same vs and pg_advantages as the call with both thresholds
   set to +infinity (any value at least as large as every importance ratio
   of the input); in both cases cs is min(rhos, 1.0). *)
C9_AbsentIsInfinite ==
  (Returned /\ ValidCall(args) /\ BothAbsent(args)) =>
    /\ \A c \in LargeThresholds(args) :
         \A a2 \in {[args EXCEPT !.clip_rho_threshold = c,
                                  !.clip_pg_rho_threshold = c]} :
           \A out \in {from_importance_weights(a2)} :
             /\ out.vs = vs
             /\ out.pg_advantages = pg_advantages
             /\ Cs(Rhos(a2)) = cs
    /\ \A tt \in TimeSteps(args), b \in Lanes(args) :
         Elem(cs, tt, b) = RMin(SpecRho(args, tt, b), One)

\* A returned call with both thresholds absent and a ratio above 1.0.
C9_Witness ==
  /\ Returned /\ ValidCall(args) /\ BothAbsent(args)
  /\ \E tt \in TimeSteps(args), b \in Lanes(args) :
       RLt(One, SpecRho(args, tt, b))

(* C10: for inputs of matching shape [T, B] the batch lanes are independent:
   vs[:, b] and pg_advantages[:, b] depend only on column b of the five
   [T, B] inputs and on bootstrap_value[b]; changing the inputs of another
   lane leaves lane b unchanged at every step of the backward scan. *)
C10_LanesIndependent ==
  (Returned /\ ValidCall(args) /\ args.values.shape[2] >= 2) =>
    \A b0 \in Lanes(args), F \in {TensorArgs, {"bootstrap_value"}} :
      \A out \in {from_importance_weights(ChangedInLane(args, F, b0))} :
         \A b \in Lanes(args) \ {b0}, tt \in TimeSteps(args) :
           /\ SameAt(out, tt, b)
           /\ Elem(out.vs_minus_v_xs, tt, b) = Elem(vs_minus_v_xs, tt, b)

\* A returned call of two lanes at least, two steps at least.
C10_Witness ==
  /\ Returned /\ ValidCall(args)
  /\ args.values.shape[1] >= 2 /\ args.values.shape[2] >= 2
  /\ \E tt \in TimeSteps(args) :
       Elem(args.rewards, tt, 0) # Elem(args.rewards, tt, 1)

=============================================================================
